---- MODULE Spec2Model ----
(***************************************************************************)
(* Model of oneinfra's node package (NewNodeWithRandomHypervisor,          *)
(* NewNodeFromv1alpha1, Node.Export, Node.Specs) and of the cluster        *)
(* reconciler (ClusterReconciler.Reconcile, ClusterReconciler.Specs).      *)
(*                                                                         *)
(* Go values are modelled as follows:                                      *)
(*   - a *Node or error that may be nil is a sequence of length 0 or 1;    *)
(*   - map[string]int is a function whose domain is the set of keys;       *)
(*   - a slice is a sequence; a string built by += is a sequence of        *)
(*     tokens, so that concatenation order is observable.                  *)
(***************************************************************************)
EXTENDS Integers, Sequences, FiniteSets, TLC

VARIABLES
    hypervisorList,   \* names of the hypervisors in the registry handed to NewNodeWithRandomHypervisor
    allocatedPorts,   \* per hypervisor: the set of held reservations [clusterName, nodeName, port]
    call,             \* per caller: the position and locals of its NewNodeWithRandomHypervisor call
    usedKeys,         \* the (clusterName, nodeName) keys NewNodeWithRandomHypervisor was called with so far
    createdNodes,     \* the nodes NewNodeWithRandomHypervisor has returned so far
    imported,         \* the latest NewNodeFromv1alpha1 call: its argument and what it returned
    conv,             \* one Export / NewNodeFromv1alpha1 round trip
    rec,              \* one ClusterReconciler.Reconcile pass
    nspecs,           \* one Node.Specs call
    cspecs            \* one ClusterReconciler.Specs call

vars == <<hypervisorList, allocatedPorts, call, usedKeys, createdNodes, imported,
          conv, rec, nspecs, cspecs>>

allocVars == <<hypervisorList, allocatedPorts, call, usedKeys, createdNodes, imported>>

(***************************************************************************)
(* Bounds of the model.                                                    *)
(***************************************************************************)
MaxPort == 2        \* the allowed port range of a hypervisor is 1..MaxPort
MaxCalls == 3       \* NewNodeWithRandomHypervisor calls per behaviour
MaxHostPorts == 2   \* length of status.allocatedHostPorts of a versioned node
MaxNodes == 3       \* length of the reconciler's nodeList
MaxText == 1        \* length, in tokens, of a sub-collection's encoding

Procs == {"p1", "p2"}
HypervisorNames == {"h1", "h2"}
ClusterNames == {"c1", "c2"}
NodeNames == {"n1", "n2"}
HostPortNames == {"apiserver", "etcd"}
Ports == 1..MaxPort

(***************************************************************************)
(* Roles.  node.Role and clusterv1alpha1's role are both string types, so  *)
(* values outside the two constants exist on either side; "" is the zero   *)
(* value.                                                                  *)
(***************************************************************************)
ControlPlaneRole == "control-plane"
ControlPlaneIngressRole == "control-plane-ingress"
v1alpha1ControlPlaneRole == "control-plane"
v1alpha1ControlPlaneIngressRole == "control-plane-ingress"
ZeroRole == ""
Roles == {ControlPlaneRole, ControlPlaneIngressRole, ZeroRole, "worker"}
v1alpha1Roles == {v1alpha1ControlPlaneRole, v1alpha1ControlPlaneIngressRole, ZeroRole, "worker"}

NoError == "nil"
EmptyPoolError == "EmptyPoolError"
PortExhaustionError == "PortExhaustionError"

EmptyMap == [k \in {} |-> 0]

\* m[k] = v, as the Go map assignment does (an existing key is overwritten)
MapSet(m, k, v) == [x \in DOMAIN m \cup {k} |-> IF x = k THEN v ELSE m[x]]

(***************************************************************************)
(* Hypervisor registry (infra package).                                    *)
(***************************************************************************)
\* HypervisorList.Sample: the outcomes of one call, an error on an empty list
Sample(list) ==
    IF list = {}
    THEN {[hypervisor |-> <<>>, err |-> EmptyPoolError]}
    ELSE {[hypervisor |-> <<h>>, err |-> NoError] : h \in list}

UsedPorts(reservations) == {r.port : r \in reservations}

\* Hypervisor.RequestPort: the outcomes of one call on a hypervisor whose
\* reservation set is `reservations`
RequestPortAnyPort(reservations, clusterName, nodeName) ==
    {[port |-> p, err |-> NoError,
      reservations |-> reservations \cup
          {[clusterName |-> clusterName, nodeName |-> nodeName, port |-> p]}]
        : p \in Ports}

RequestPort(reservations, clusterName, nodeName) ==
    IF Ports \ UsedPorts(reservations) = {}
    THEN {[port |-> 0, err |-> PortExhaustionError, reservations |-> reservations]}
    ELSE {[port |-> p, err |-> NoError,
           reservations |-> reservations \cup
               {[clusterName |-> clusterName, nodeName |-> nodeName, port |-> p]}]
             : p \in Ports \ UsedPorts(reservations)}

(***************************************************************************)
(* Node construction.                                                      *)
(***************************************************************************)
\* the Node literal of NewNodeWithRandomHypervisor
NewNode(clusterName, nodeName, role, hypervisorName) ==
    [Name |-> nodeName,
     HypervisorName |-> hypervisorName,
     ClusterName |-> clusterName,
     Role |-> role,
     AllocatedHostPorts |-> EmptyMap]

\* node.AllocatedHostPorts["apiserver"] = apiserverHostPort
SetApiserverHostPortOffByOne(node, apiserverHostPort) ==
    [node EXCEPT !.AllocatedHostPorts = MapSet(@, "apiserver", apiserverHostPort + 1)]

SetApiserverHostPort(node, apiserverHostPort) ==
    [node EXCEPT !.AllocatedHostPorts = MapSet(@, "apiserver", apiserverHostPort)]

IdleCall ==
    [pc |-> "idle", clusterName |-> "", nodeName |-> "", role |-> ZeroRole,
     hypervisor |-> <<>>, node |-> <<>>, err |-> NoError,
     samples |-> 0, requests |-> 0]

\* what NewNodeWithRandomHypervisor does with the outcome s of Sample
AfterSampleIgnoreError(c, s) ==
    [c EXCEPT !.pc = "sampled", !.samples = @ + 1, !.err = NoError,
              !.hypervisor = IF s.err # NoError THEN <<"h1">> ELSE s.hypervisor]

AfterSample(c, s) ==
    IF s.err # NoError
    THEN [c EXCEPT !.pc = "returned", !.samples = @ + 1, !.err = s.err,
                   !.node = <<>>]
    ELSE [c EXCEPT !.pc = "sampled", !.samples = @ + 1, !.hypervisor = s.hypervisor]

\* NewNodeWithRandomHypervisor, entry to the return after Sample or to the
\* point before RequestPort
NewNodeWithRandomHypervisor_Sample(p, clusterName, nodeName, role) ==
    /\ call[p].pc \in {"idle", "returned"}
    /\ Cardinality(usedKeys) < MaxCalls
    /\ <<clusterName, nodeName>> \notin usedKeys
    /\ usedKeys' = usedKeys \cup {<<clusterName, nodeName>>}
    /\ \E s \in Sample(hypervisorList) :
         call' = [call EXCEPT ![p] =
            AfterSample([IdleCall EXCEPT !.clusterName = clusterName,
                                         !.nodeName = nodeName, !.role = role], s)]
    /\ UNCHANGED <<hypervisorList, allocatedPorts, createdNodes, imported>>

\* what NewNodeWithRandomHypervisor does with the outcome r of RequestPort
AfterRequestPortKeepNode(c, r) ==
    [c EXCEPT !.pc = "returned", !.err = r.err, !.requests = @ + 1,
              !.node = <<SetApiserverHostPort(
                  NewNode(c.clusterName, c.nodeName, c.role, c.hypervisor[1]), r.port)>>]

AfterRequestPort(c, r) ==
    IF r.err # NoError
    THEN [c EXCEPT !.pc = "returned", !.err = r.err, !.requests = @ + 1,
                   !.node = <<>>]
    ELSE [c EXCEPT !.pc = "returned", !.err = NoError, !.requests = @ + 1,
                   !.node = <<SetApiserverHostPort(
                       NewNode(c.clusterName, c.nodeName, c.role, c.hypervisor[1]), r.port)>>]

\* NewNodeWithRandomHypervisor, from RequestPort to the return
NewNodeWithRandomHypervisor_RequestPort(p) ==
    /\ call[p].pc = "sampled"
    /\ LET h == call[p].hypervisor[1] IN
       \E r \in RequestPort(allocatedPorts[h], call[p].clusterName, call[p].nodeName) :
         /\ allocatedPorts' = [allocatedPorts EXCEPT ![h] = r.reservations]
         /\ call' = [call EXCEPT ![p] = AfterRequestPort(call[p], r)]
         /\ createdNodes' = createdNodes \cup {call'[p].node[i] : i \in DOMAIN call'[p].node}
    /\ UNCHANGED <<hypervisorList, usedKeys, imported>>

(***************************************************************************)
(* Conversion between Node and the versioned node.                         *)
(***************************************************************************)
\* the range loop of NewNodeFromv1alpha1 over node.Status.AllocatedHostPorts
RECURSIVE HostPortsToMap(_, _)
HostPortsToMap(hostPorts, m) ==
    IF hostPorts = <<>>
    THEN m
    ELSE HostPortsToMap(Tail(hostPorts),
                        MapSet(m, Head(hostPorts).Name, Head(hostPorts).Port))

ImportRoleDefaulting(role) ==
    IF role = v1alpha1ControlPlaneIngressRole
    THEN ControlPlaneIngressRole
    ELSE ControlPlaneRole

\* the switch of NewNodeFromv1alpha1
ImportRole(role) ==
    CASE role = v1alpha1ControlPlaneRole -> ControlPlaneRole
      [] role = v1alpha1ControlPlaneIngressRole -> ControlPlaneIngressRole
      [] OTHER -> ZeroRole

NewNodeFromv1alpha1(node) ==
    [node |-> <<[Name |-> node.ObjectMeta.Name,
                 HypervisorName |-> node.Spec.Hypervisor,
                 ClusterName |-> node.Spec.Cluster,
                 Role |-> ImportRole(node.Spec.Role),
                 AllocatedHostPorts |->
                     HostPortsToMap(node.Status.AllocatedHostPorts, EmptyMap)]>>,
     err |-> NoError]

\* the switch of Export
ExportRole(role) ==
    CASE role = ControlPlaneRole -> v1alpha1ControlPlaneRole
      [] role = ControlPlaneIngressRole -> v1alpha1ControlPlaneIngressRole
      [] OTHER -> ZeroRole

\* the orders in which a range over a Go map may visit its keys
KeyOrders(m) ==
    {o \in [1..Cardinality(DOMAIN m) -> DOMAIN m] :
        \A i, j \in DOMAIN o : i # j => o[i] # o[j]}

\* Node.Export, the map being ranged over in the order `order`
Export(node, order) ==
    [ObjectMeta |-> [Name |-> node.Name],
     Spec |-> [Hypervisor |-> node.HypervisorName,
               Cluster |-> node.ClusterName,
               Role |-> ExportRole(node.Role)],
     Status |-> [AllocatedHostPorts |->
                    [i \in DOMAIN order |->
                        [Name |-> order[i], Port |-> node.AllocatedHostPorts[order[i]]]]]]

HostPortSeqs(maxLen) ==
    UNION {[1..n -> [Name : HostPortNames, Port : Ports]] : n \in 0..maxLen}

v1alpha1Nodes(maxLen) ==
    [ObjectMeta : [Name : NodeNames],
     Spec : [Hypervisor : HypervisorNames, Cluster : ClusterNames, Role : v1alpha1Roles],
     Status : [AllocatedHostPorts : HostPortSeqs(maxLen)]]

\* the versioned nodes imported while allocations are going on
ImportedSamples ==
    {v \in v1alpha1Nodes(1) :
        /\ v.ObjectMeta.Name = "n1"
        /\ v.Spec.Cluster = "c1"
        /\ v.Spec.Hypervisor = "h1"
        /\ v.Spec.Role = v1alpha1ControlPlaneRole
        /\ \A i \in DOMAIN v.Status.AllocatedHostPorts :
              v.Status.AllocatedHostPorts[i].Name = "apiserver"}

\* a caller imports a versioned node while allocations are going on
ImportFromVersioned(v) ==
    /\ LET r == NewNodeFromv1alpha1(v) IN
         imported' = <<[versioned |-> v, node |-> r.node, err |-> r.err]>>
    /\ UNCHANGED <<hypervisorList, allocatedPorts, call, usedKeys, createdNodes>>

(***************************************************************************)
(* The allocation model: concurrent NewNodeWithRandomHypervisor calls and  *)
(* imports against one hypervisor registry.                                *)
(***************************************************************************)
otherVars == <<conv, rec, nspecs, cspecs>>

IdleOther ==
    /\ conv = <<>>
    /\ rec = <<>>
    /\ nspecs = <<>>
    /\ cspecs = <<>>

IdleAlloc ==
    /\ allocatedPorts = [h \in HypervisorNames |-> {}]
    /\ call = [p \in Procs |-> IdleCall]
    /\ usedKeys = {}
    /\ createdNodes = {}
    /\ imported = <<>>

Init ==
    /\ hypervisorList \in SUBSET HypervisorNames
    /\ IdleAlloc
    /\ IdleOther

Create ==
    \E p \in Procs, c \in ClusterNames, n \in NodeNames,
       role \in {ControlPlaneRole} :
        NewNodeWithRandomHypervisor_Sample(p, c, n, role)

Request == \E p \in Procs : NewNodeWithRandomHypervisor_RequestPort(p)

Import == \E v \in ImportedSamples : ImportFromVersioned(v)

Next ==
    \/ Create /\ UNCHANGED otherVars
    \/ Request /\ UNCHANGED otherVars
    \/ Import /\ UNCHANGED otherVars

Spec == Init /\ [][Next]_vars

(***************************************************************************)
(* The conversion model: a node is exported and the result imported.       *)
(***************************************************************************)
HostPortMaps == UNION {[d -> Ports] : d \in SUBSET HostPortNames}

NodeValues ==
    [Name : NodeNames, HypervisorName : HypervisorNames, ClusterName : ClusterNames,
     Role : Roles, AllocatedHostPorts : HostPortMaps]

\* reservation sets the hypervisors may hold while a conversion runs
HeldReservations ==
    {[h \in HypervisorNames |-> {}],
     [h \in HypervisorNames |->
        IF h = "h1" THEN {[clusterName |-> "c1", nodeName |-> "n1", port |-> 1]} ELSE {}]}

InitConv ==
    /\ conv \in {[stage |-> "node", node |-> <<n>>, versioned |-> <<>>,
                   back |-> <<>>, err |-> NoError] : n \in NodeValues}
              \cup {[stage |-> "versioned", node |-> <<>>, versioned |-> <<v>>,
                     back |-> <<>>, err |-> NoError] : v \in v1alpha1Nodes(MaxHostPorts)}
    /\ hypervisorList = HypervisorNames
    /\ allocatedPorts \in HeldReservations
    /\ call = [p \in Procs |-> IdleCall]
    /\ usedKeys = {}
    /\ createdNodes = {}
    /\ imported = <<>>
    /\ rec = <<>>
    /\ nspecs = <<>>
    /\ cspecs = <<>>

DoExport ==
    /\ conv.stage = "node"
    /\ \E order \in KeyOrders(conv.node[1].AllocatedHostPorts) :
         conv' = [conv EXCEPT !.stage = "exported",
                              !.versioned = <<Export(conv.node[1], order)>>]
    /\ UNCHANGED <<allocVars, rec, nspecs, cspecs>>

DoImport ==
    /\ conv.stage \in {"exported", "versioned"}
    /\ LET r == NewNodeFromv1alpha1(conv.versioned[1]) IN
         conv' = [conv EXCEPT !.stage = "imported", !.back = r.node, !.err = r.err]
    /\ UNCHANGED <<allocVars, rec, nspecs, cspecs>>

NextConv ==
    \/ DoExport
    \/ DoImport

SpecConv == InitConv /\ [][NextConv]_vars

(***************************************************************************)
(* The reconciliation model: one pass of ClusterReconciler.Reconcile.      *)
(***************************************************************************)
ReconciledNodes ==
    {SetApiserverHostPort(NewNode("c1", n, ControlPlaneRole, "h1"), 1) : n \in NodeNames}

NodeLists == UNION {[1..k -> ReconciledNodes] : k \in 0..MaxNodes}

\* NewClusterReconciler; the engines are told apart by `self`
NewClusterReconciler(self, nodeList) ==
    [self |-> self, nodeList |-> nodeList]

\* the ClusterReconcilerInquirer literal of Reconcile
Inquirer(nodeObj, clusterReconciler) ==
    [node |-> nodeObj, clusterReconciler |-> clusterReconciler.self]

InitRec ==
    /\ rec \in {[pc |-> "idle", clusterReconciler |-> NewClusterReconciler(e, l),
                  i |-> 1, invoked |-> <<>>, reported |-> <<>>, err |-> <<>>]
                    : e \in {"engine1", "engine2"}, l \in NodeLists}
    /\ hypervisorList = {}
    /\ IdleAlloc
    /\ conv = <<>>
    /\ nspecs = <<>>
    /\ cspecs = <<>>

\* entry of Reconcile
ReconcileEnter ==
    /\ rec.pc = "idle"
    /\ rec' = [rec EXCEPT !.pc = "loop"]
    /\ UNCHANGED <<allocVars, conv, nspecs, cspecs>>

\* one iteration of the range loop; `outcome` is what the per-node
\* reconciler reported through its own channel
ReconcileIterationStopOnFailure(r, outcome) ==
    [r EXCEPT !.invoked = Append(@, Inquirer(r.clusterReconciler.nodeList[r.i],
                                              r.clusterReconciler)),
              !.reported = Append(@, outcome),
              !.i = IF outcome = "failed" THEN Len(r.clusterReconciler.nodeList) + 1
                    ELSE @ + 1]

ReconcileIteration(r, outcome) ==
    [r EXCEPT !.invoked = Append(@, Inquirer(r.clusterReconciler.nodeList[r.i],
                                              r.clusterReconciler)),
              !.reported = Append(@, outcome),
              !.i = @ + 1]

ReconcileNode ==
    /\ rec.pc = "loop"
    /\ rec.i <= Len(rec.clusterReconciler.nodeList)
    /\ \E outcome \in {"ok", "failed"} : rec' = ReconcileIteration(rec, outcome)
    /\ UNCHANGED <<allocVars, conv, nspecs, cspecs>>

\* the loop is over: return nil
ReconcileReturn ==
    /\ rec.pc = "loop"
    /\ rec.i > Len(rec.clusterReconciler.nodeList)
    /\ rec' = [rec EXCEPT !.pc = "returned", !.err = <<NoError>>]
    /\ UNCHANGED <<allocVars, conv, nspecs, cspecs>>

NextRec ==
    \/ ReconcileEnter
    \/ ReconcileNode
    \/ ReconcileReturn

SpecRec == InitRec /\ [][NextRec]_vars

(***************************************************************************)
(* The encoding model: Node.Specs and ClusterReconciler.Specs.             *)
(***************************************************************************)
Tokens == {"a", "b"}
Texts == UNION {[1..k -> Tokens] : k \in 0..MaxText}

\* what hypervisorMap.Specs(), clusterMap.Specs() or nodeList.Specs() returns
SubSpecs ==
    {[text |-> t, err |-> NoError] : t \in Texts}
        \cup {[text |-> <<>>, err |-> "sub-aggregation error"]}

ClusterReconcilerSpecsWrongOrder(hypervisors, clusters, nodes) ==
    IF hypervisors.err # NoError
    THEN [res |-> <<>>, err |-> NoError, called |-> <<"hypervisorMap">>]
    ELSE IF clusters.err # NoError
    THEN [res |-> <<>>, err |-> NoError, called |-> <<"hypervisorMap", "clusterMap">>]
    ELSE IF nodes.err # NoError
    THEN [res |-> <<>>, err |-> NoError,
          called |-> <<"hypervisorMap", "clusterMap", "nodeList">>]
    ELSE [res |-> clusters.text \o hypervisors.text \o nodes.text, err |-> NoError,
          called |-> <<"hypervisorMap", "clusterMap", "nodeList">>]

ClusterReconcilerSpecsPartial(hypervisors, clusters, nodes) ==
    IF hypervisors.err # NoError
    THEN [res |-> <<>>, err |-> NoError, called |-> <<"hypervisorMap">>]
    ELSE IF clusters.err # NoError
    THEN [res |-> hypervisors.text, err |-> NoError,
          called |-> <<"hypervisorMap", "clusterMap">>]
    ELSE IF nodes.err # NoError
    THEN [res |-> hypervisors.text \o clusters.text, err |-> NoError,
          called |-> <<"hypervisorMap", "clusterMap", "nodeList">>]
    ELSE [res |-> hypervisors.text \o clusters.text \o nodes.text, err |-> NoError,
          called |-> <<"hypervisorMap", "clusterMap", "nodeList">>]

\* ClusterReconciler.Specs, given what the three sub-aggregations return
ClusterReconcilerSpecs(hypervisors, clusters, nodes) ==
    IF hypervisors.err # NoError
    THEN [res |-> <<>>, err |-> NoError, called |-> <<"hypervisorMap">>]
    ELSE IF clusters.err # NoError
    THEN [res |-> <<>>, err |-> NoError, called |-> <<"hypervisorMap", "clusterMap">>]
    ELSE IF nodes.err # NoError
    THEN [res |-> <<>>, err |-> NoError,
          called |-> <<"hypervisorMap", "clusterMap", "nodeList">>]
    ELSE [res |-> hypervisors.text \o clusters.text \o nodes.text, err |-> NoError,
          called |-> <<"hypervisorMap", "clusterMap", "nodeList">>]

\* an error value: what its message says about the node, and the error it wraps
RawError(cause) == [kind |-> cause, name |-> <<>>, wraps |-> <<>>]
Errorf(kind, name) == [kind |-> kind, name |-> <<name>>, wraps |-> <<>>]

\* Node.Specs, given the outcome of AddToScheme and of runtime.Encode and
\* the order in which Export ranges over the map
NodeSpecs(node, addToSchemeErr, encodeErr, order) ==
    IF addToSchemeErr # NoError
    THEN [text |-> <<>>, err |-> <<RawError(addToSchemeErr)>>]
    ELSE IF encodeErr = NoError
    THEN [text |-> <<Export(node, order)>>, err |-> <<>>]
    ELSE [text |-> <<>>, err |-> <<Errorf("could not encode node", node.Name)>>]

EncodedNodes ==
    {n \in NodeValues : n.ClusterName = "c1" /\ n.HypervisorName = "h1"
                          /\ n.Role = ControlPlaneRole
                          /\ DOMAIN n.AllocatedHostPorts = {"apiserver"}}

InitSpecs ==
    /\ nspecs \in {[pc |-> "idle", node |-> n, addToSchemeErr |-> a, encodeErr |-> e,
                     text |-> <<>>, err |-> <<>>]
                       : n \in EncodedNodes,
                         a \in {NoError, "scheme error"}, e \in {NoError, "encode error"}}
    /\ cspecs \in {[pc |-> "idle", hypervisors |-> h, clusters |-> c, nodes |-> n,
                     res |-> <<>>, err |-> NoError, called |-> <<>>]
                       : h \in SubSpecs, c \in SubSpecs, n \in SubSpecs}
    /\ hypervisorList = {}
    /\ IdleAlloc
    /\ conv = <<>>
    /\ rec = <<>>

CallNodeSpecs ==
    /\ nspecs.pc = "idle"
    /\ \E order \in KeyOrders(nspecs.node.AllocatedHostPorts) :
         LET r == NodeSpecs(nspecs.node, nspecs.addToSchemeErr, nspecs.encodeErr, order) IN
           nspecs' = [nspecs EXCEPT !.pc = "returned", !.text = r.text, !.err = r.err]
    /\ UNCHANGED <<allocVars, conv, rec, cspecs>>

CallClusterReconcilerSpecs ==
    /\ cspecs.pc = "idle"
    /\ LET r == ClusterReconcilerSpecs(cspecs.hypervisors, cspecs.clusters, cspecs.nodes) IN
         cspecs' = [cspecs EXCEPT !.pc = "returned", !.res = r.res, !.err = r.err,
                                  !.called = r.called]
    /\ UNCHANGED <<allocVars, conv, rec, nspecs>>

NextSpecs ==
    \/ CallNodeSpecs
    \/ CallClusterReconcilerSpecs

SpecSpecs == InitSpecs /\ [][NextSpecs]_vars

(***************************************************************************)
(* Properties.                                                             *)
(***************************************************************************)
Key(clusterName, nodeName, port) ==
    [clusterName |-> clusterName, nodeName |-> nodeName, port |-> port]

Succeeded(p) == call[p].pc = "returned" /\ call[p].err = NoError

\* C1: for every node n, importing Export(n) succeeds and yields a node equal
\* to n in name, hypervisor, cluster, role and allocated host ports (the
\* ports compared as a set of (name, port) pairs).
C1_RoundTrip ==
    (conv.stage = "imported" /\ conv.node # <<>>)
        => (conv.err = NoError /\ conv.back = conv.node)

\* C2: no two distinct (cluster, node) owners hold the same port on the same
\* hypervisor, and two calls that were given a port on the same hypervisor
\* for different keys were given different ports.
C2_PortUniqueness ==
    /\ \A h \in HypervisorNames : \A r1, r2 \in allocatedPorts[h] :
          r1.port = r2.port =>
              (r1.clusterName = r2.clusterName /\ r1.nodeName = r2.nodeName)
    /\ \A p, q \in Procs :
          (p # q /\ Succeeded(p) /\ Succeeded(q)
                 /\ call[p].hypervisor = call[q].hypervisor)
              => call[p].node[1].AllocatedHostPorts["apiserver"]
                    # call[q].node[1].AllocatedHostPorts["apiserver"]

\* C2 witness: two calls for different node names were both given a port on
\* the same hypervisor.
C2_Witness ==
    /\ Succeeded("p1") /\ Succeeded("p2")
    /\ call["p1"].hypervisor = call["p2"].hypervisor
    /\ call["p1"].nodeName # call["p2"].nodeName

C3_NoNodeNoRetry ==
    \A p \in Procs :
        (call[p].pc = "returned" /\ call[p].err = PortExhaustionError)
            => /\ call[p].node = <<>>
               /\ call[p].samples = 1
               /\ call[p].requests = 1
               /\ \A h \in HypervisorNames : \A r \in allocatedPorts[h] :
                     ~(r.clusterName = call[p].clusterName /\ r.nodeName = call[p].nodeName)

C3_FailingStepReservesNothing ==
    \A p \in Procs :
        (call[p].pc = "sampled" /\ call'[p].pc = "returned" /\ call'[p].err # NoError)
            => (allocatedPorts' = allocatedPorts /\ createdNodes' = createdNodes)

\* C3: when RequestPort fails in NewNodeWithRandomHypervisor, the call
\* returns that error and no node after one Sample and one RequestPort, and
\* the step leaves every hypervisor's reservation set as it was.
C3_AtomicAllocation ==
    []C3_NoNodeNoRetry /\ [][C3_FailingStepReservesNothing]_vars

\* C3 witness: a call has returned PortExhaustionError while ports are held.
C3_Witness ==
    \E p \in Procs :
        /\ call[p].pc = "returned"
        /\ call[p].err = PortExhaustionError
        /\ allocatedPorts[call[p].hypervisor[1]] # {}

\* C4: when Reconcile returns, the per-node reconciler has been invoked
\* exactly once for each entry of nodeList, in order, each time with an
\* inquirer bound to that node and this reconciler, whatever the earlier
\* invocations reported, and Reconcile returns nil.
C4_ReconcileExhaustive ==
    rec.pc = "returned"
        => /\ rec.err = <<NoError>>
           /\ rec.invoked =
                 [i \in 1..Len(rec.clusterReconciler.nodeList) |->
                     [node |-> rec.clusterReconciler.nodeList[i],
                      clusterReconciler |-> rec.clusterReconciler.self]]

\* C4 witness: a pass over at least two nodes has returned although the
\* first invocation reported a failure.
C4_Witness ==
    /\ rec.pc = "returned"
    /\ Len(rec.clusterReconciler.nodeList) >= 2
    /\ rec.reported[1] = "failed"

AllSucceed ==
    /\ cspecs.hypervisors.err = NoError
    /\ cspecs.clusters.err = NoError
    /\ cspecs.nodes.err = NoError

\* C5: when the three sub-aggregations succeed, Specs returns the
\* hypervisors' text, then the clusters', then the nodes', and nothing else.
C5_SpecsOrder ==
    (cspecs.pc = "returned" /\ AllSucceed)
        => /\ cspecs.res = cspecs.hypervisors.text \o cspecs.clusters.text \o cspecs.nodes.text
           /\ cspecs.err = NoError

\* C5 witness: Specs has returned with three non-empty encodings, the
\* hypervisors' differing from the clusters' and the clusters' from the nodes'.
C5_Witness ==
    /\ cspecs.pc = "returned" /\ AllSucceed
    /\ cspecs.hypervisors.text # <<>> /\ cspecs.nodes.text # <<>>
    /\ cspecs.hypervisors.text # cspecs.clusters.text
    /\ cspecs.clusters.text # cspecs.nodes.text

UnderlyingCause ==
    IF nspecs.addToSchemeErr # NoError THEN nspecs.addToSchemeErr ELSE nspecs.encodeErr

\* C6: whenever Node.Specs fails, the text is empty and the error wraps the
\* underlying cause and names the node.
C6_EncodingError ==
    (nspecs.pc = "returned" /\ nspecs.err # <<>>)
        => /\ nspecs.text = <<>>
           /\ nspecs.err[1].name = <<nspecs.node.Name>>
           /\ nspecs.err[1].wraps = <<UnderlyingCause>>

OwnsReservedPorts(n) ==
    \A k \in DOMAIN n.AllocatedHostPorts :
        Key(n.ClusterName, n.Name, n.AllocatedHostPorts[k])
            \in allocatedPorts[n.HypervisorName]

ImportedNodes == {imported[i].node[1] : i \in DOMAIN imported}

\* C7: every entry of every node's allocatedHostPorts, whether the node was
\* created or imported, is a port reserved on the node's hypervisor for
\* that node.
C7_AllNodesOwnReservedPorts ==
    \A n \in createdNodes \cup ImportedNodes : OwnsReservedPorts(n)

\* C7 as amended: every node returned by NewNodeWithRandomHypervisor has
\* the single entry "apiserver", a port reserved on the node's hypervisor
\* for that node.
C7_CreatedNodesOwnReservedPorts ==
    \A n \in createdNodes :
        DOMAIN n.AllocatedHostPorts = {"apiserver"} /\ OwnsReservedPorts(n)

\* C7 witness: nodes have been created on both hypervisors and a node has
\* been imported.
C7_Witness ==
    /\ \A h \in HypervisorNames : \E n \in createdNodes : n.HypervisorName = h
    /\ imported # <<>>

FirstFailure ==
    IF cspecs.hypervisors.err # NoError THEN 1
    ELSE IF cspecs.clusters.err # NoError THEN 2 ELSE 3

\* C8: when a sub-aggregation fails, Specs calls nothing after the first
\* failure and returns the empty text and a nil error.
C8_SpecsFailFast ==
    (cspecs.pc = "returned" /\ ~AllSucceed)
        => /\ cspecs.res = <<>>
           /\ cspecs.err = NoError
           /\ cspecs.called = SubSeq(<<"hypervisorMap", "clusterMap", "nodeList">>,
                                     1, FirstFailure)

\* C8 witness: Specs has returned after the hypervisors were encoded to a
\* non-empty text and the clusters' encoding failed.
C8_Witness ==
    /\ cspecs.pc = "returned"
    /\ cspecs.hypervisors.err = NoError /\ cspecs.hypervisors.text # <<>>
    /\ cspecs.clusters.err # NoError

UnrecognizedRole(v) ==
    v.Spec.Role \notin {v1alpha1ControlPlaneRole, v1alpha1ControlPlaneIngressRole}

\* the port the last entry named k of a host-port sequence carries
LastPort(hostPorts, k) ==
    LET last == CHOOSE i \in DOMAIN hostPorts :
                   /\ hostPorts[i].Name = k
                   /\ \A j \in DOMAIN hostPorts : hostPorts[j].Name = k => j <= i
    IN hostPorts[last].Port

C9_LenientNode ==
    (conv.stage = "imported" /\ conv.node = <<>> /\ UnrecognizedRole(conv.versioned[1]))
        => LET v == conv.versioned[1]
               n == conv.back[1]
           IN /\ conv.err = NoError
              /\ Len(conv.back) = 1
              /\ n.Role = ZeroRole
              /\ n.Name = v.ObjectMeta.Name
              /\ n.HypervisorName = v.Spec.Hypervisor
              /\ n.ClusterName = v.Spec.Cluster
              /\ DOMAIN n.AllocatedHostPorts =
                    {v.Status.AllocatedHostPorts[i].Name : i \in DOMAIN v.Status.AllocatedHostPorts}
              /\ \A k \in DOMAIN n.AllocatedHostPorts :
                    n.AllocatedHostPorts[k] = LastPort(v.Status.AllocatedHostPorts, k)

C9_ImportReservesNothing ==
    (conv.stage # "imported" /\ conv'.stage = "imported")
        => allocatedPorts' = allocatedPorts

\* C9: importing a versioned node whose role is neither "control-plane" nor
\* "control-plane-ingress" returns no error and a node with the zero role
\* and the versioned node's name, hypervisor, cluster and host ports, and
\* an import changes no hypervisor's reservation set.
C9_DecodeLeniency ==
    []C9_LenientNode /\ [][C9_ImportReservesNothing]_vars

\* C9 witness: a versioned node with role "worker" and two host ports has
\* been imported while a reservation is held.
C9_Witness ==
    /\ conv.stage = "imported" /\ conv.node = <<>>
    /\ conv.versioned[1].Spec.Role = "worker"
    /\ Len(conv.versioned[1].Status.AllocatedHostPorts) = 2
    /\ allocatedPorts["h1"] # {}

\* C10: a NewNodeWithRandomHypervisor call on an empty hypervisor list
\* returns EmptyPoolError and no node, and requests no port.
C10_EmptyPool ==
    hypervisorList = {}
        => /\ \A p \in Procs :
                /\ call[p].pc # "sampled"
                /\ call[p].pc = "returned"
                     => /\ call[p].err = EmptyPoolError
                        /\ call[p].node = <<>>
                        /\ call[p].hypervisor = <<>>
                        /\ call[p].requests = 0
           /\ \A h \in HypervisorNames : allocatedPorts[h] = {}
           /\ createdNodes = {}

\* C10 witness: both callers have had a call return on an empty list.
C10_Witness ==
    /\ hypervisorList = {}
    /\ \A p \in Procs : call[p].pc = "returned"

====
